---- MODULE Spec2Model ----
(***************************************************************************)
(* Netlist mutation helpers of nextpnr (common/design_utils.cc).           *)
(*                                                                         *)
(* The graph is modelled as the C++ objects are laid out:                  *)
(*   ports[c][p]  the PortInfo stored in cell c under key p                *)
(*                (name, type, net pointer);                               *)
(*   heap[a]      the NetInfo object at address a (name, driver, users);   *)
(*   nets[n]      ctx->nets: identifier -> owning pointer (an address);    *)
(*   freed        addresses whose NetInfo has been destroyed;              *)
(*   fatal        a failed NPNR_ASSERT / uncaught exception ended the run. *)
(* Every helper is an operator from graph record to graph record, so that  *)
(* the composite helpers call the simple ones exactly as the code does.    *)
(*                                                                         *)
(* A failed assertion ends the run with the writes made before it left in  *)
(* place.  The maps (ports, ctx->nets) are taken to keep references to     *)
(* their elements valid across insertions, as std::unordered_map does.     *)
(* last records the helper called last, its arguments and the graph it was *)
(* called on, so that the properties can relate a call's result to its     *)
(* input.                                                                  *)
(***************************************************************************)
EXTENDS Integers, Sequences, FiniteSets, TLC

VARIABLES ports, heap, nets, freed, fatal, last, calls

vars == <<ports, heap, nets, freed, fatal, last, calls>>

(* ------------------------------ bounds -------------------------------- *)
\* number of helper calls a pass makes in one run
MaxCalls == 2
\* largest bus width handed to replace_bus / copy_bus
MaxWidth == 2
\* number of NetInfo addresses the allocator can hand out
MaxAddr == 3

(* ----------------------------- constants ------------------------------ *)
PORT_IN == "PORT_IN"
PORT_OUT == "PORT_OUT"
PORT_INOUT == "PORT_INOUT"

\* nullptr for NetInfo* and for CellInfo*; IdString() is the empty string
NULL == 0
NOCELL == ""

\* ctx->cells: the identifiers of the cells of the design (cells are never
\* created or deleted by these helpers)
ctx_cells == {"A", "B", "C", "C$conn$IO"}

\* the cells the passes hand to the helpers
Cells == {"A", "B", "C"}

PortRef(c, p) == [cell |-> c, port |-> p]

NoDriver == PortRef(NOCELL, "")

PortInfo(n, t, net) == [name |-> n, type |-> t, net |-> net]

NetInfo(n, d, u) == [name |-> n, driver |-> d, users |-> u]

(* -------------------------- graph as a value -------------------------- *)
G == [ports |-> ports, heap |-> heap, nets |-> nets, freed |-> freed, fatal |-> fatal]

\* NPNR_ASSERT failure, std::out_of_range from .at(), or a crash
Fatal(g) == [g EXCEPT !.fatal = TRUE]

\* f with key k bound to v (std::map / unordered_map operator[] assignment)
MapPut(f, k, v) == [x \in DOMAIN f \cup {k} |-> IF x = k THEN v ELSE f[x]]

\* f without key k (erase)
MapErase(f, k) == [x \in DOMAIN f \ {k} |-> f[x]]

HasPort(g, c, p) == p \in DOMAIN g.ports[c]

\* Dereferencing a destroyed NetInfo is undefined behaviour: the build either
\* crashes or goes on with the stale object, the choice being ub.
BadDeref(g, ub, a) == a \in g.freed /\ ub = "crash"

(* ----------------------------- connect_port --------------------------- *)
\* faulty variant: the assertion of line 97 left out, a second driver takes the net
connect_driver_unchecked(g, net, cell, port_name) ==
  [g EXCEPT !.heap[net].driver = PortRef(cell, port_name)]

\* lines 96-99: an output port becomes the driver, unless there is one
connect_driver(g, net, cell, port_name) ==
  IF g.heap[net].driver.cell # NOCELL
    THEN Fatal(g)
    ELSE [g EXCEPT !.heap[net].driver = PortRef(cell, port_name)]

\* faulty variant: the new entry inserted at users.begin()
connect_user_front(g, net, cell, port_name) ==
  [g EXCEPT !.heap[net].users = <<PortRef(cell, port_name)>> \o @]

\* lines 100-104: an input or inout port is appended to the users
connect_user(g, net, cell, port_name) ==
  [g EXCEPT !.heap[net].users = Append(@, PortRef(cell, port_name))]

connect_port(g, ub, net, cell, port_name) ==
  IF net = NULL THEN g
  ELSE IF ~HasPort(g, cell, port_name) THEN Fatal(g)
  ELSE IF g.ports[cell][port_name].net # NULL THEN Fatal(g)
  ELSE LET g1 == [g EXCEPT !.ports[cell][port_name].net = net]
           type == g.ports[cell][port_name].type
       IN IF type = PORT_OUT
            THEN IF BadDeref(g1, ub, net) THEN Fatal(g1)
                 ELSE connect_driver(g1, net, cell, port_name)
          ELSE IF type \in {PORT_IN, PORT_INOUT}
            THEN IF BadDeref(g1, ub, net) THEN Fatal(g1)
                 ELSE connect_user(g1, net, cell, port_name)
          ELSE Fatal(g1)

(* ---------------------------- disconnect_port ------------------------- *)
\* std::remove_if + erase: drop every entry naming (cell, port_name)
RECURSIVE remove_users(_, _, _)
remove_users(users, cell, port_name) ==
  IF users = <<>> THEN <<>>
  ELSE IF Head(users) = PortRef(cell, port_name)
    THEN remove_users(Tail(users), cell, port_name)
    ELSE <<Head(users)>> \o remove_users(Tail(users), cell, port_name)

\* lines 121-122: only driver.cell is cleared, driver.port keeps its value
clear_driver(drv, cell, port_name) ==
  IF drv.cell = cell /\ drv.port = port_name
    THEN [drv EXCEPT !.cell = NOCELL]
    ELSE drv

disconnect_port(g, ub, cell, port_name) ==
  IF ~HasPort(g, cell, port_name) THEN g
  ELSE LET net == g.ports[cell][port_name].net
       IN IF net = NULL THEN g
          ELSE IF BadDeref(g, ub, net) THEN Fatal(g)
          ELSE [g EXCEPT
                  !.heap[net].users = remove_users(@, cell, port_name),
                  !.heap[net].driver = clear_driver(@, cell, port_name),
                  !.ports[cell][port_name].net = NULL]

(* ----------------------------- connect_ports -------------------------- *)
\* line 133: cell1->name.str(ctx) + "$conn$" + port1_name.str(ctx)
conn_name(cell1, port1_name) == cell1 \o "$conn$" \o port1_name

\* line 132: new NetInfo() at the address the allocator hands out; a destroyed
\* object's address may be handed out again
new_NetInfo(g, addr) ==
  [g EXCEPT !.heap = MapPut(@, addr, NetInfo("", NoDriver, <<>>)),
            !.freed = @ \ {addr}]

\* line 137: ctx->nets[p1name] = std::move(p1net); the unique_ptr that was
\* stored under p1name, if any, destroys its NetInfo
store_net(g, p1name, addr) ==
  [g EXCEPT !.nets = MapPut(@, p1name, addr),
            !.freed = IF p1name \in DOMAIN g.nets
                        THEN @ \cup {g.nets[p1name]}
                        ELSE @]

\* line 136: the identifier of the new net is looked up in ctx->cells
conn_name_taken(g, p1name) == p1name \in ctx_cells

\* lines 130-138
create_p1net(g, ub, addr, cell1, port1_name) ==
  LET p1name == conn_name(cell1, port1_name)
      g1 == new_NetInfo(g, addr)
      g2 == [g1 EXCEPT !.heap[addr].name = p1name]
      g3 == connect_port(g2, ub, addr, cell1, port1_name)
  IN IF g3.fatal THEN g3
     ELSE IF conn_name_taken(g3, p1name) THEN Fatal(g3)
     ELSE store_net(g3, p1name, addr)

connect_ports(g, ub, addr, cell1, port1_name, cell2, port2_name) ==
  IF ~HasPort(g, cell1, port1_name) THEN Fatal(g)
  ELSE LET g1 == IF g.ports[cell1][port1_name].net = NULL
                   THEN create_p1net(g, ub, addr, cell1, port1_name)
                   ELSE g
       IN IF g1.fatal THEN g1
          ELSE connect_port(g1, ub, g1.ports[cell1][port1_name].net, cell2, port2_name)

(* ------------------------------ replace_port -------------------------- *)
\* lines 52-57: every user entry naming the old port names the new one
replace_users(users, old_cell, old_name, rep_cell, rep_name) ==
  [i \in 1..Len(users) |->
     IF users[i].cell = old_cell /\ users[i].port = old_name
       THEN PortRef(rep_cell, rep_name)
       ELSE users[i]]

\* lines 35-38: the replacement port is created with the old port's type
replace_create(g, old_type, rep_cell, rep_name) ==
  IF HasPort(g, rep_cell, rep_name) THEN g
  ELSE [g EXCEPT !.ports[rep_cell] = MapPut(@, rep_name, PortInfo(rep_name, old_type, NULL))]

\* faulty variant: line 44 left out, the old port keeps its net pointer
replace_move_keep(g, old_cell, old_name, rep_cell, rep_name) ==
  [g EXCEPT !.ports[rep_cell][rep_name].net = g.ports[old_cell][old_name].net]

\* lines 43-44: rep.net = old.net; old.net = nullptr (old and rep may be the
\* same PortInfo)
replace_move(g, old_cell, old_name, rep_cell, rep_name) ==
  LET g1 == [g EXCEPT !.ports[rep_cell][rep_name].net = g.ports[old_cell][old_name].net]
  IN [g1 EXCEPT !.ports[old_cell][old_name].net = NULL]

replace_port(g, ub, old_cell, old_name, rep_cell, rep_name) ==
  IF ~HasPort(g, old_cell, old_name) THEN g
  ELSE LET g1 == replace_create(g, g.ports[old_cell][old_name].type, rep_cell, rep_name)
           type == g1.ports[rep_cell][rep_name].type
       IN IF g1.ports[old_cell][old_name].type # type THEN Fatal(g1)
          ELSE LET g2 == replace_move(g1, old_cell, old_name, rep_cell, rep_name)
                   net == g2.ports[rep_cell][rep_name].net
               IN IF type = PORT_OUT
                    THEN IF net = NULL THEN g2
                         ELSE IF BadDeref(g2, ub, net) THEN Fatal(g2)
                         ELSE [g2 EXCEPT !.heap[net].driver = PortRef(rep_cell, rep_name)]
                  ELSE IF type = PORT_IN
                    THEN IF net = NULL THEN g2
                         ELSE IF BadDeref(g2, ub, net) THEN Fatal(g2)
                         ELSE [g2 EXCEPT !.heap[net].users =
                                 replace_users(@, old_cell, old_name, rep_cell, rep_name)]
                  ELSE Fatal(g2)

(* ------------------------------ rename_port --------------------------- *)
\* lines 148-149
rename_driver(drv, cell, old_name, new_name) ==
  IF drv.cell = cell /\ drv.port = old_name
    THEN [drv EXCEPT !.port = new_name]
    ELSE drv

\* lines 150-152
rename_users(users, cell, old_name, new_name) ==
  [i \in 1..Len(users) |->
     IF users[i].cell = cell /\ users[i].port = old_name
       THEN [users[i] EXCEPT !.port = new_name]
       ELSE users[i]]

\* faulty variant: the erase of line 154 left out
rename_entry_no_erase(cellports, pi, old_name, new_name) ==
  MapPut(cellports, new_name, [pi EXCEPT !.name = new_name])

\* lines 154-156: erase the old key, then store the copy under the new key
rename_entry(cellports, pi, old_name, new_name) ==
  MapPut(MapErase(cellports, old_name), new_name, [pi EXCEPT !.name = new_name])

rename_port(g, ub, cell, old_name, new_name) ==
  IF ~HasPort(g, cell, old_name) THEN g
  ELSE LET pi == g.ports[cell][old_name]
           g1 == IF pi.net = NULL THEN g
                 ELSE [g EXCEPT
                         !.heap[pi.net].driver = rename_driver(@, cell, old_name, new_name),
                         !.heap[pi.net].users = rename_users(@, cell, old_name, new_name)]
       IN IF pi.net # NULL /\ BadDeref(g, ub, pi.net) THEN Fatal(g)
          ELSE [g1 EXCEPT !.ports[cell] = rename_entry(@, pi, old_name, new_name)]

(* ------------------------------- rename_net --------------------------- *)
\* faulty variant: the erase of line 165 left out, the emptied slot stays
rename_slot_no_erase(store, old_name, new_name) ==
  LET ptr == IF old_name \in DOMAIN store THEN store[old_name] ELSE NULL
  IN MapPut(MapPut(store, old_name, NULL), new_name, ptr)

\* lines 164-165: std::swap of the two slots (operator[] creates an empty
\* slot for a missing key), then the slot under the old name is erased
rename_slot(store, old_name, new_name) ==
  LET ptr == IF old_name \in DOMAIN store THEN store[old_name] ELSE NULL
  IN MapPut(MapErase(store, old_name), new_name, ptr)

rename_net(g, ub, net, new_name) ==
  IF net = NULL THEN g
  ELSE IF new_name \in DOMAIN g.nets THEN Fatal(g)
  ELSE IF BadDeref(g, ub, net) THEN Fatal(g)
  ELSE [g EXCEPT !.nets = rename_slot(@, g.heap[net].name, new_name),
                 !.heap[net].name = new_name]

(* -------------------------------- copy_port --------------------------- *)
\* faulty variant: line 184 left out, the type of the new entry is not assigned
copy_declare_no_type(g, type, new_cell, new_name) ==
  LET was == IF HasPort(g, new_cell, new_name)
               THEN g.ports[new_cell][new_name]
               ELSE PortInfo("", PORT_IN, NULL)
  IN [g EXCEPT !.ports[new_cell] = MapPut(@, new_name, [was EXCEPT !.name = new_name])]

\* lines 183-184: operator[] creates an empty PortInfo when the key is new;
\* name and type are assigned whether or not the port was there before
copy_declare(g, type, new_cell, new_name) ==
  LET was == IF HasPort(g, new_cell, new_name)
               THEN g.ports[new_cell][new_name]
               ELSE PortInfo("", PORT_IN, NULL)
  IN [g EXCEPT !.ports[new_cell] =
        MapPut(@, new_name, [was EXCEPT !.name = new_name, !.type = type])]

\* faulty variant: the net is moved to the new port as replace_port moves it
copy_port_moves(g, ub, old_cell, old_name, new_cell, new_name) ==
  IF ~HasPort(g, old_cell, old_name) THEN g
  ELSE LET g1 == copy_declare(g, g.ports[old_cell][old_name].type, new_cell, new_name)
           g2 == connect_port(g1, ub, g1.ports[old_cell][old_name].net, new_cell, new_name)
       IN IF g2.fatal \/ (old_cell = new_cell /\ old_name = new_name) THEN g2
          ELSE [g2 EXCEPT !.ports[old_cell][old_name].net = NULL]

\* faulty variant: the early return of lines 181-182 left out, so that line 183
\* declares the new port and .at(old_name) throws
copy_port_unguarded(g, ub, old_cell, old_name, new_cell, new_name) ==
  LET was == IF HasPort(g, new_cell, new_name)
               THEN g.ports[new_cell][new_name]
               ELSE PortInfo("", PORT_IN, NULL)
      g0 == [g EXCEPT !.ports[new_cell] = MapPut(@, new_name, [was EXCEPT !.name = new_name])]
  IN IF ~HasPort(g0, old_cell, old_name) THEN Fatal(g0)
     ELSE LET g1 == copy_declare(g, g.ports[old_cell][old_name].type, new_cell, new_name)
          IN connect_port(g1, ub, g1.ports[old_cell][old_name].net, new_cell, new_name)

copy_port(g, ub, old_cell, old_name, new_cell, new_name) ==
  IF ~HasPort(g, old_cell, old_name) THEN g
  ELSE LET g1 == copy_declare(g, g.ports[old_cell][old_name].type, new_cell, new_name)
       IN connect_port(g1, ub, g1.ports[old_cell][old_name].net, new_cell, new_name)

(* --------------------------------- buses ------------------------------ *)
Digit == <<"0", "1", "2", "3", "4", "5", "6", "7", "8", "9">>

\* printf's %d
RECURSIVE IntStr(_)
IntStr(n) ==
  IF n < 0 THEN "-" \o IntStr(-n)
  ELSE IF n < 10 THEN Digit[n + 1]
  ELSE IntStr(n \div 10) \o Digit[(n % 10) + 1]

\* faulty variant: the flat format written "%s_%d"
bus_port_underscore(name, idx, brackets) ==
  IF brackets THEN name \o "[" \o IntStr(idx) \o "]"
  ELSE name \o "_" \o IntStr(idx)

\* stringf(brackets ? "%s[%d]" : "%s%d", name, i + offset)
bus_port(name, idx, brackets) ==
  IF brackets THEN name \o "[" \o IntStr(idx) \o "]"
  ELSE name \o IntStr(idx)

\* the for loop from index i on; a fatal call ends the run where it is
RECURSIVE replace_bus_from(_, _, _, _, _, _, _, _, _, _, _, _)
replace_bus_from(g, ub, i, old_cell, old_name, old_offset, old_brackets, new_cell, new_name, new_offset, new_brackets, width) ==
  IF g.fatal \/ ~(i < width) THEN g
  ELSE replace_bus_from(
         replace_port(g, ub, old_cell, bus_port(old_name, i + old_offset, old_brackets),
                      new_cell, bus_port(new_name, i + new_offset, new_brackets)),
         ub, i + 1, old_cell, old_name, old_offset, old_brackets,
         new_cell, new_name, new_offset, new_brackets, width)

\* faulty variant: the loop written for (int i = width - 1; i >= 0; i--)
RECURSIVE replace_bus_down(_, _, _, _, _, _, _, _, _, _, _)
replace_bus_down(g, ub, i, old_cell, old_name, old_offset, old_brackets, new_cell, new_name, new_offset, new_brackets) ==
  IF g.fatal \/ i < 0 THEN g
  ELSE replace_bus_down(
         replace_port(g, ub, old_cell, bus_port(old_name, i + old_offset, old_brackets),
                      new_cell, bus_port(new_name, i + new_offset, new_brackets)),
         ub, i - 1, old_cell, old_name, old_offset, old_brackets,
         new_cell, new_name, new_offset, new_brackets)

replace_bus_descending(g, ub, old_cell, old_name, old_offset, old_brackets, new_cell, new_name, new_offset, new_brackets, width) ==
  replace_bus_down(g, ub, width - 1, old_cell, old_name, old_offset, old_brackets,
                   new_cell, new_name, new_offset, new_brackets)

replace_bus(g, ub, old_cell, old_name, old_offset, old_brackets, new_cell, new_name, new_offset, new_brackets, width) ==
  replace_bus_from(g, ub, 0, old_cell, old_name, old_offset, old_brackets,
                   new_cell, new_name, new_offset, new_brackets, width)

RECURSIVE copy_bus_from(_, _, _, _, _, _, _, _, _, _, _, _)
copy_bus_from(g, ub, i, old_cell, old_name, old_offset, old_brackets, new_cell, new_name, new_offset, new_brackets, width) ==
  IF g.fatal \/ ~(i < width) THEN g
  ELSE copy_bus_from(
         copy_port(g, ub, old_cell, bus_port(old_name, i + old_offset, old_brackets),
                   new_cell, bus_port(new_name, i + new_offset, new_brackets)),
         ub, i + 1, old_cell, old_name, old_offset, old_brackets,
         new_cell, new_name, new_offset, new_brackets, width)

copy_bus(g, ub, old_cell, old_name, old_offset, old_brackets, new_cell, new_name, new_offset, new_brackets, width) ==
  copy_bus_from(g, ub, 0, old_cell, old_name, old_offset, old_brackets,
                new_cell, new_name, new_offset, new_brackets, width)

(* ------------------------------ initial graphs ------------------------ *)
\* Netlists as the (excluded) construction code leaves them: every port's net
\* pointer and every net's driver and users agree.
InitPorts(q, d1a, d0, d1, io, e0) ==
  [c \in Cells |->
     IF c = "A" THEN [p \in {"Q", "D[1]"} |->
                        IF p = "Q" THEN PortInfo(p, PORT_OUT, q)
                        ELSE PortInfo(p, PORT_OUT, d1a)]
     ELSE IF c = "B" THEN [p \in {"D[0]", "D[1]"} |->
                        IF p = "D[0]" THEN PortInfo(p, PORT_IN, d0)
                        ELSE PortInfo(p, PORT_IN, d1)]
     ELSE [p \in {"IO", "E0"} |->
                        IF p = "IO" THEN PortInfo(p, PORT_INOUT, io)
                        ELSE PortInfo(p, PORT_IN, e0)]]

\* 1: two driven nets
InitGraph1 ==
  [ports |-> InitPorts(1, 2, 1, 2, 1, NULL),
   heap |-> <<NetInfo("n1", PortRef("A", "Q"), <<PortRef("B", "D[0]"), PortRef("C", "IO")>>),
              NetInfo("n2", PortRef("A", "D[1]"), <<PortRef("B", "D[1]")>>)>>,
   nets |-> [n \in {"n1", "n2"} |-> IF n = "n1" THEN 1 ELSE 2],
   freed |-> {}, fatal |-> FALSE]

\* 2: a net left behind by connect_ports(A, Q, B, D[0]) and disconnect_port(A, Q),
\* and an empty net
InitGraph2 ==
  [ports |-> InitPorts(NULL, NULL, 1, NULL, NULL, NULL),
   heap |-> <<NetInfo("A$conn$Q", [cell |-> NOCELL, port |-> "Q"], <<PortRef("B", "D[0]")>>),
              NetInfo("n1", NoDriver, <<>>)>>,
   nets |-> [n \in {"A$conn$Q", "n1"} |-> IF n = "n1" THEN 2 ELSE 1],
   freed |-> {}, fatal |-> FALSE]

\* 3: an undriven net with three users, and an empty net
InitGraph3 ==
  [ports |-> InitPorts(NULL, NULL, NULL, 1, 1, 1),
   heap |-> <<NetInfo("n1", NoDriver, <<PortRef("C", "IO"), PortRef("B", "D[1]"), PortRef("C", "E0")>>),
              NetInfo("n2", NoDriver, <<>>)>>,
   nets |-> [n \in {"n1", "n2"} |-> IF n = "n1" THEN 1 ELSE 2],
   freed |-> {}, fatal |-> FALSE]

InitGraphs == {InitGraph1, InitGraph2, InitGraph3}

\* last: the helper called last, its arguments, and the graph it was called on
NoCall == [op |-> "none", args |-> <<>>, pre |-> <<>>]

Init ==
  \E g \in InitGraphs :
    /\ ports = g.ports
    /\ heap = g.heap
    /\ nets = g.nets
    /\ freed = g.freed
    /\ fatal = g.fatal
    /\ last = NoCall
    /\ calls = 0

(* ------------------------------- the calls ---------------------------- *)
\* the arguments the passes hand to the helpers
Ref(c, p) == <<c, p>>

ConnRefs == {Ref("A", "Q"), Ref("A", "D[1]"), Ref("B", "D[0]"), Ref("C", "IO"), Ref("C", "E1")}

OldRefs == {Ref("A", "Q"), Ref("B", "D[0]"), Ref("C", "IO"), Ref("C", "E1")}

NewRefs == {Ref("B", "D[0]"), Ref("B", "D[1]"), Ref("A", "D[1]"), Ref("C", "E1")}

Port1Refs == {Ref("A", "Q"), Ref("B", "D[0]"), Ref("C", "IO")}

Port2Refs == {Ref("B", "D[0]"), Ref("B", "D[1]"), Ref("C", "IO"), Ref("C", "E1")}

RenameRefs == {Ref("A", "Q"), Ref("B", "D[0]"), Ref("B", "D0")}

RenameTo == {"D[0]", "D[1]", "D0"}

NetNames == {"n1", "n3"}

\* old bus, new bus: cell, base name, brackets
OldBuses == {<<"A", "D", TRUE>>, <<"B", "D", TRUE>>, <<"C", "E", FALSE>>}

NewBuses == {<<"A", "D", TRUE>>, <<"C", "E", FALSE>>}

\* old_offset, new_offset
Offsets == {<<0, 0>>, <<1, 0>>, <<0, 1>>}

Widths == 1..MaxWidth

\* NetInfo pointers a pass can hold: the nets of the design, or nullptr
NetPtrs == {NULL} \cup {nets[n] : n \in DOMAIN nets}

\* outcomes of undefined behaviour that can arise in the current graph
UB == IF freed = {} THEN {"stale"} ELSE {"stale", "crash"}

\* addresses operator new can return: one never used, or a destroyed object's
Unused == (1..MaxAddr) \ DOMAIN heap

NewAddrs == freed \cup (IF Unused = {} THEN {} ELSE {CHOOSE a \in Unused : \A b \in Unused : a <= b})

Call(r, op, args) ==
  /\ ~fatal
  /\ calls < MaxCalls
  /\ ports' = r.ports
  /\ heap' = r.heap
  /\ nets' = r.nets
  /\ freed' = r.freed
  /\ fatal' = r.fatal
  /\ last' = [op |-> op, args |-> args, pre |-> G]
  /\ calls' = calls + 1

Connect ==
  \E net \in NetPtrs, r \in ConnRefs, ub \in UB :
    Call(connect_port(G, ub, net, r[1], r[2]), "connect_port", <<net, r[1], r[2]>>)

Disconnect ==
  \E r \in ConnRefs, ub \in UB :
    Call(disconnect_port(G, ub, r[1], r[2]), "disconnect_port", <<r[1], r[2]>>)

\* an address is only drawn when line 132 runs
ConnectPorts ==
  \E r1 \in Port1Refs, r2 \in Port2Refs, ub \in UB :
    \E addr \in IF HasPort(G, r1[1], r1[2]) /\ ports[r1[1]][r1[2]].net = NULL
                  THEN NewAddrs ELSE {NULL} :
      Call(connect_ports(G, ub, addr, r1[1], r1[2], r2[1], r2[2]),
           "connect_ports", <<r1[1], r1[2], r2[1], r2[2]>>)

ReplacePort ==
  \E o \in OldRefs, n \in NewRefs, ub \in UB :
    Call(replace_port(G, ub, o[1], o[2], n[1], n[2]),
         "replace_port", <<o[1], o[2], n[1], n[2]>>)

RenamePort ==
  \E r \in RenameRefs, new_name \in RenameTo, ub \in UB :
    Call(rename_port(G, ub, r[1], r[2], new_name),
         "rename_port", <<r[1], r[2], new_name>>)

RenameNet ==
  \E net \in NetPtrs, new_name \in NetNames, ub \in UB :
    Call(rename_net(G, ub, net, new_name), "rename_net", <<net, new_name>>)

CopyPort ==
  \E o \in OldRefs, n \in NewRefs, ub \in UB :
    Call(copy_port(G, ub, o[1], o[2], n[1], n[2]),
         "copy_port", <<o[1], o[2], n[1], n[2]>>)

ReplaceBus ==
  \E o \in OldBuses, n \in NewBuses, off \in Offsets, width \in Widths, ub \in UB :
    Call(replace_bus(G, ub, o[1], o[2], off[1], o[3], n[1], n[2], off[2], n[3], width),
         "replace_bus", <<o[1], o[2], off[1], o[3], n[1], n[2], off[2], n[3], width>>)

CopyBus ==
  \E o \in OldBuses, n \in NewBuses, off \in Offsets, width \in Widths, ub \in UB :
    Call(copy_bus(G, ub, o[1], o[2], off[1], o[3], n[1], n[2], off[2], n[3], width),
         "copy_bus", <<o[1], o[2], off[1], o[3], n[1], n[2], off[2], n[3], width>>)

Next ==
  \/ Connect
  \/ Disconnect
  \/ ConnectPorts
  \/ ReplacePort
  \/ RenamePort
  \/ RenameNet
  \/ CopyPort
  \/ ReplaceBus
  \/ CopyBus

Spec == Init /\ [][Next]_vars

(* ======================= properties of the helpers ==================== *)
\* the NetInfo objects the design owns
StoreNets(g) == {g.nets[n] : n \in DOMAIN g.nets}

HasDriver(net) == net.driver.cell # NOCELL

\* the optional driver reference: absent when driver.cell is nullptr
DriverOf(net) == IF HasDriver(net) THEN net.driver ELSE NoDriver

Listed(users, c, p) == \E i \in 1..Len(users) : users[i] = PortRef(c, p)

PortExists(g, ref) == ref.cell \in Cells /\ HasPort(g, ref.cell, ref.port)

\* the user entry ref of net a names an input or inout port attached to a
UserOk(g, a, ref) ==
  /\ PortExists(g, ref)
  /\ g.ports[ref.cell][ref.port].type \in {PORT_IN, PORT_INOUT}
  /\ g.ports[ref.cell][ref.port].net = a

\* the driver ref of net a names an output or inout port attached to a
DriverOk(g, a, ref) ==
  /\ PortExists(g, ref)
  /\ g.ports[ref.cell][ref.port].type \in {PORT_OUT, PORT_INOUT}
  /\ g.ports[ref.cell][ref.port].net = a

NetToPort(g) ==
  \A a \in StoreNets(g) :
    /\ \A i \in 1..Len(g.heap[a].users) : UserOk(g, a, g.heap[a].users[i])
    /\ HasDriver(g.heap[a]) => DriverOk(g, a, g.heap[a].driver)

PortToNet(g) ==
  \A c \in Cells : \A p \in DOMAIN g.ports[c] :
    LET port == g.ports[c][p]
    IN port.net # NULL =>
         /\ port.net \in StoreNets(g)
         /\ port.type = PORT_OUT => DriverOf(g.heap[port.net]) = PortRef(c, p)
         /\ port.type \in {PORT_IN, PORT_INOUT} => Listed(g.heap[port.net].users, c, p)

\* C1: after any sequence of helper calls that completed, every user entry of
\* every net of the design names an existing IN/INOUT port attached to that
\* net, and every driver names an existing OUT/INOUT port attached to that net.
C1_NetToPortConsistent == ~fatal => NetToPort(G)

\* C2: after any sequence of helper calls that completed, every connected port
\* points to a net of the design that lists it as driver (OUT) or as a user
\* (IN, INOUT).
C2_PortToNetConsistent == ~fatal => PortToNet(G)

\* C3: connect_port on an existing, unconnected port: an OUT port on a net that
\* has a driver is fatal; an OUT port on a net without driver completes and is
\* the driver; an IN/INOUT port always completes and is appended to the users;
\* and no connect_port call ever replaces a driver that is present.
C3_SingleDriver ==
  (last.op = "connect_port" /\ last.args[1] # NULL) =>
    LET g == last.pre
        net == last.args[1]
        c == last.args[2]
        p == last.args[3]
        was == g.heap[net]
        now == heap[net]
    IN /\ HasDriver(was) => now.driver = was.driver
       /\ (HasPort(g, c, p) /\ g.ports[c][p].net = NULL) =>
            LET type == g.ports[c][p].type
            IN /\ (type = PORT_OUT /\ HasDriver(was)) => fatal
               /\ (type = PORT_OUT /\ ~HasDriver(was)) =>
                    /\ ~fatal
                    /\ now.driver = PortRef(c, p)
                    /\ now.users = was.users
                    /\ ports[c][p].net = net
               /\ (type \in {PORT_IN, PORT_INOUT}) =>
                    /\ ~fatal
                    /\ now.users = Append(was.users, PortRef(c, p))
                    /\ now.driver = was.driver
                    /\ ports[c][p].net = net

\* a second OUT port was handed to a driven net, and the run ended there
C3_Witness ==
  /\ last.op = "connect_port"
  /\ last.args[1] # NULL
  /\ HasPort(last.pre, last.args[2], last.args[3])
  /\ last.pre.ports[last.args[2]][last.args[3]].net = NULL
  /\ last.pre.ports[last.args[2]][last.args[3]].type = PORT_OUT
  /\ HasDriver(last.pre.heap[last.args[1]])
  /\ last.pre.heap[last.args[1]].users # <<>>
  /\ fatal

\* C4: connect_ports with port1 unconnected, when the derived net name is
\* already the identifier of a net or of a cell of the design, is fatal; no
\* connect_ports call changes which NetInfo an existing identifier denotes.
C4_NoIdentifierReuse ==
  last.op = "connect_ports" =>
    LET g == last.pre
        c1 == last.args[1]
        p1 == last.args[2]
    IN /\ (/\ HasPort(g, c1, p1)
           /\ g.ports[c1][p1].net = NULL
           /\ conn_name(c1, p1) \in DOMAIN g.nets \cup ctx_cells) => fatal
       /\ \A n \in DOMAIN g.nets : n \in DOMAIN nets /\ nets[n] = g.nets[n]

\* C5: after connect_port(N, P) completed on an unconnected port P,
\* disconnect_port(P) leaves P without net and N's driver reference and user
\* list exactly as they were before the connect, with no entry naming P.
C5_ConnectDisconnectRoundTrip ==
  (/\ last.op = "connect_port"
   /\ last.args[1] # NULL
   /\ HasPort(last.pre, last.args[2], last.args[3])
   /\ last.pre.ports[last.args[2]][last.args[3]].net = NULL
   /\ ~fatal) =>
    LET net == last.args[1]
        c == last.args[2]
        p == last.args[3]
        was == last.pre.heap[net]
        g2 == disconnect_port(G, "stale", c, p)
    IN /\ ~g2.fatal
       /\ g2.ports[c][p].net = NULL
       /\ DriverOf(g2.heap[net]) = DriverOf(was)
       /\ g2.heap[net].users = was.users
       /\ ~Listed(g2.heap[net].users, c, p)
       /\ DriverOf(g2.heap[net]) # PortRef(c, p)

\* the case of C6: an IN port attached to a net of the design that lists it,
\* replaced by a port that does not exist
ReplaceInCase(g, oc, on, nc, nn) ==
  /\ HasPort(g, oc, on)
  /\ g.ports[oc][on].type = PORT_IN
  /\ g.ports[oc][on].net \in StoreNets(g)
  /\ Listed(g.heap[g.ports[oc][on].net].users, oc, on)
  /\ ~HasPort(g, nc, nn)

\* what replace_port does in that case to the net and to the new port
ReplaceInMoved(g, oc, on, nc, nn) ==
  LET n == g.ports[oc][on].net
  IN /\ ~fatal
     /\ heap[n].driver = g.heap[n].driver
     /\ Len(heap[n].users) = Len(g.heap[n].users)
     /\ \A i \in 1..Len(heap[n].users) :
          heap[n].users[i] = IF g.heap[n].users[i] = PortRef(oc, on)
                               THEN PortRef(nc, nn)
                               ELSE g.heap[n].users[i]
     /\ HasPort(G, nc, nn)
     /\ ports[nc][nn] = PortInfo(nn, PORT_IN, n)

\* C6 (as stated): replace_port of an IN port that is a user of net N onto a
\* port that did not exist leaves N's driver, renames the user entry, attaches
\* the new port to N, and old_cell no longer has a port named old_port.
C6_ReplaceRemovesOldPort ==
  (last.op = "replace_port"
   /\ ReplaceInCase(last.pre, last.args[1], last.args[2], last.args[3], last.args[4])) =>
    /\ ReplaceInMoved(last.pre, last.args[1], last.args[2], last.args[3], last.args[4])
    /\ ~HasPort(G, last.args[1], last.args[2])

\* C6 (amended): as above, but old_cell still has old_port, with its direction
\* and without net.
C6_ReplaceKeepsOldPort ==
  (last.op = "replace_port"
   /\ ReplaceInCase(last.pre, last.args[1], last.args[2], last.args[3], last.args[4])) =>
    /\ ReplaceInMoved(last.pre, last.args[1], last.args[2], last.args[3], last.args[4])
    /\ HasPort(G, last.args[1], last.args[2])
    /\ ports[last.args[1]][last.args[2]] = PortInfo(last.args[2], PORT_IN, NULL)

\* an IN user with a driver beside it was moved to a new port of another cell
C6_Witness ==
  /\ last.op = "replace_port"
  /\ ReplaceInCase(last.pre, last.args[1], last.args[2], last.args[3], last.args[4])
  /\ last.args[1] # last.args[3]
  /\ HasDriver(heap[last.pre.ports[last.args[1]][last.args[2]].net])
  /\ Len(heap[last.pre.ports[last.args[1]][last.args[2]].net].users) > 1
  /\ ~fatal

\* the case of C7: the port exists and is attached to a net of the design
RenameCase(g, c, on) ==
  /\ HasPort(g, c, on)
  /\ g.ports[c][on].net \in StoreNets(g)

\* what rename_port does to the nets and to the renamed port
RenameKeepsConnectivity(g, c, on, nn) ==
  LET n == g.ports[c][on].net
  IN /\ ~fatal
     /\ heap[n].driver = IF g.heap[n].driver = PortRef(c, on) /\ HasDriver(g.heap[n])
                           THEN PortRef(c, nn)
                           ELSE g.heap[n].driver
     /\ Len(heap[n].users) = Len(g.heap[n].users)
     /\ \A i \in 1..Len(heap[n].users) :
          heap[n].users[i] = IF g.heap[n].users[i] = PortRef(c, on)
                               THEN PortRef(c, nn)
                               ELSE g.heap[n].users[i]
     /\ heap[n].name = g.heap[n].name
     /\ \A a \in StoreNets(g) \ {n} : heap[a] = g.heap[a]
     /\ nets = g.nets
     /\ HasPort(G, c, nn)
     /\ ports[c][nn] = PortInfo(nn, g.ports[c][on].type, n)

\* C7 (as stated): rename_port of a connected port puts the new name where the
\* old one stood in the net's driver and users, changes no other entry of any
\* net, leaves the port under new_name with its direction and net, and leaves
\* no port under old_name.
C7_RenameLeavesNoOldName ==
  (last.op = "rename_port" /\ RenameCase(last.pre, last.args[1], last.args[2])) =>
    /\ RenameKeepsConnectivity(last.pre, last.args[1], last.args[2], last.args[3])
    /\ ~HasPort(G, last.args[1], last.args[2])

\* C7 (amended): as above, and no port is left under old_name unless new_name
\* is old_name.
C7_RenameConnectivityPreserving ==
  (last.op = "rename_port" /\ RenameCase(last.pre, last.args[1], last.args[2])) =>
    /\ RenameKeepsConnectivity(last.pre, last.args[1], last.args[2], last.args[3])
    /\ HasPort(G, last.args[1], last.args[2]) <=> last.args[2] = last.args[3]

\* a user of a net with more than one user was given a name not in use
C7_Witness ==
  /\ last.op = "rename_port"
  /\ RenameCase(last.pre, last.args[1], last.args[2])
  /\ last.args[2] # last.args[3]
  /\ ~HasPort(last.pre, last.args[1], last.args[3])
  /\ Len(heap[ports[last.args[1]][last.args[3]].net].users) > 1
  /\ Listed(heap[ports[last.args[1]][last.args[3]].net].users, last.args[1], last.args[3])
  /\ ~fatal

\* C8: connect_ports that completes with port1 an unconnected OUT port and
\* port2 an unconnected IN port adds exactly one net to the design, under the
\* identifier cell1 $conn$ port1 and carrying it, driven by port1 with port2 as
\* only user; with port1 connected, no net is created and port2 is attached to
\* port1's net.
C8_ConnectPortsNewNet ==
  (/\ last.op = "connect_ports"
   /\ HasPort(last.pre, last.args[1], last.args[2])
   /\ HasPort(last.pre, last.args[3], last.args[4])
   /\ last.pre.ports[last.args[3]][last.args[4]].net = NULL
   /\ last.pre.ports[last.args[3]][last.args[4]].type = PORT_IN
   /\ ~fatal) =>
    LET g == last.pre
        c1 == last.args[1]
        p1 == last.args[2]
        c2 == last.args[3]
        p2 == last.args[4]
        name == conn_name(c1, p1)
    IN /\ (g.ports[c1][p1].net = NULL /\ g.ports[c1][p1].type = PORT_OUT) =>
            /\ name \notin DOMAIN g.nets
            /\ DOMAIN nets = DOMAIN g.nets \cup {name}
            /\ \A n \in DOMAIN g.nets : nets[n] = g.nets[n]
            /\ nets[name] \notin StoreNets(g)
            /\ heap[nets[name]] = NetInfo(name, PortRef(c1, p1), <<PortRef(c2, p2)>>)
            /\ ports[c1][p1].net = nets[name]
            /\ ports[c2][p2].net = nets[name]
       /\ g.ports[c1][p1].net \in StoreNets(g) =>
            /\ nets = g.nets
            /\ DOMAIN heap = DOMAIN g.heap
            /\ ports[c2][p2].net = g.ports[c1][p1].net
            /\ heap[g.ports[c1][p1].net].users =
                 Append(g.heap[g.ports[c1][p1].net].users, PortRef(c2, p2))

\* the case of C9: an IN port attached to a net of the design that lists it,
\* copied onto a port that does not exist
CopyInCase(g, oc, on, nc, nn) ==
  /\ HasPort(g, oc, on)
  /\ g.ports[oc][on].type = PORT_IN
  /\ g.ports[oc][on].net \in StoreNets(g)
  /\ Listed(g.heap[g.ports[oc][on].net].users, oc, on)
  /\ ~HasPort(g, nc, nn)

\* C9: copy_port of an IN user of net N onto a port that does not exist leaves
\* the source port and its user entry as they were, appends the new port as a
\* further user of N attached to N, and disconnecting either of the two ports
\* afterwards leaves the other attached to N and listed by N.
C9_CopyIndependence ==
  (last.op = "copy_port"
   /\ CopyInCase(last.pre, last.args[1], last.args[2], last.args[3], last.args[4])) =>
    LET g == last.pre
        oc == last.args[1]
        on == last.args[2]
        nc == last.args[3]
        nn == last.args[4]
        n == g.ports[oc][on].net
        dn == disconnect_port(G, "stale", nc, nn)
        do == disconnect_port(G, "stale", oc, on)
    IN /\ ~fatal
       /\ ports[oc][on] = g.ports[oc][on]
       /\ heap[n].users = Append(g.heap[n].users, PortRef(nc, nn))
       /\ heap[n].driver = g.heap[n].driver
       /\ PortRef(nc, nn) # PortRef(oc, on)
       /\ HasPort(G, nc, nn)
       /\ ports[nc][nn] = PortInfo(nn, PORT_IN, n)
       /\ ~dn.fatal
       /\ dn.ports[nc][nn].net = NULL
       /\ dn.ports[oc][on].net = n
       /\ Listed(dn.heap[n].users, oc, on)
       /\ ~do.fatal
       /\ do.ports[oc][on].net = NULL
       /\ do.ports[nc][nn].net = n
       /\ Listed(do.heap[n].users, nc, nn)

\* an IN user of a driven net was copied onto a new port
C9_Witness ==
  /\ last.op = "copy_port"
  /\ CopyInCase(last.pre, last.args[1], last.args[2], last.args[3], last.args[4])
  /\ HasDriver(heap[ports[last.args[3]][last.args[4]].net])
  /\ ~fatal

\* the source port is an OUT port attached to a net of the design as its driver
OutDriver(g, oc, on) ==
  /\ HasPort(g, oc, on)
  /\ g.ports[oc][on].type = PORT_OUT
  /\ g.ports[oc][on].net \in StoreNets(g)
  /\ g.heap[g.ports[oc][on].net].driver = PortRef(oc, on)

\* C10: copy_port whose source is an OUT port driving its net is fatal and the
\* net's driver still names the source port; so is copy_bus when it reaches an
\* index whose source port is such a port.
C10_CopyDriverFatal ==
  /\ (last.op = "copy_port" /\ OutDriver(last.pre, last.args[1], last.args[2])) =>
       /\ fatal
       /\ heap[last.pre.ports[last.args[1]][last.args[2]].net].driver =
            PortRef(last.args[1], last.args[2])
  /\ last.op = "copy_bus" =>
       \A i \in 0..(last.args[9] - 1) :
         LET oc == last.args[1]
             on == bus_port(last.args[2], i + last.args[3], last.args[4])
             gi == copy_bus(last.pre, "stale", last.args[1], last.args[2], last.args[3],
                            last.args[4], last.args[5], last.args[6], last.args[7],
                            last.args[8], i)
         IN (~gi.fatal /\ OutDriver(gi, oc, on)) =>
              /\ fatal
              /\ heap[gi.ports[oc][on].net].driver = PortRef(oc, on)

\* a driving OUT port was copied onto a port that did not exist, by copy_port
C10_Witness ==
  /\ last.op = "copy_port"
  /\ OutDriver(last.pre, last.args[1], last.args[2])
  /\ ~HasPort(last.pre, last.args[3], last.args[4])
  /\ fatal

(* ------------------------------ bus calls ----------------------------- *)
\* the name of index idx of a bus: base[idx] in bracketed style, base sep idx
\* in flat style
IndexedName(base, idx, brackets, sep) ==
  IF brackets THEN base \o "[" \o IntStr(idx) \o "]"
  ELSE base \o sep \o IntStr(idx)

\* the single-port call a bus call stands for at index i
SingleCall(g, ub, op, a, sep, i) ==
  LET old_port == IndexedName(a[2], a[3] + i, a[4], sep)
      new_port == IndexedName(a[6], a[7] + i, a[8], sep)
  IN IF op = "replace_bus"
       THEN replace_port(g, ub, a[1], old_port, a[5], new_port)
       ELSE copy_port(g, ub, a[1], old_port, a[5], new_port)

\* the graph after the single-port calls for indices 0 .. k-1, made one after
\* the other; nothing is called after a call that was fatal
RECURSIVE SeqCalls(_, _, _, _, _, _)
SeqCalls(g, ub, op, a, sep, k) ==
  IF k = 0 THEN g
  ELSE LET h == SeqCalls(g, ub, op, a, sep, k - 1)
       IN IF h.fatal THEN h ELSE SingleCall(h, ub, op, a, sep, k - 1)

BusCall == last.op \in {"replace_bus", "copy_bus"}

\* C11 (as stated): replace_bus / copy_bus of width W ends in the graph that W
\* replace_port / copy_port calls in ascending index order end in, index i
\* naming base[offset+i] in bracketed style and base_(offset+i) in flat style.
C11_BusEqualsCallsUnderscore ==
  BusCall => \E ub \in {"stale", "crash"} :
               G = SeqCalls(last.pre, ub, last.op, last.args, "_", last.args[9])

\* C11 (amended): as above, index i naming base[offset+i] in bracketed style
\* and base followed directly by offset+i in flat style.
C11_BusEqualsCalls ==
  BusCall => \E ub \in {"stale", "crash"} :
               G = SeqCalls(last.pre, ub, last.op, last.args, "", last.args[9])

\* a bracketed bus of two connected ports was replaced by a flat bus
C11_Witness ==
  /\ last.op = "replace_bus"
  /\ last.args[9] = 2
  /\ last.args[4] /\ ~last.args[8]
  /\ \A i \in 0..1 :
       /\ HasPort(last.pre, last.args[1], IndexedName(last.args[2], last.args[3] + i, TRUE, ""))
       /\ last.pre.ports[last.args[1]][IndexedName(last.args[2], last.args[3] + i, TRUE, "")].net # NULL
       /\ HasPort(G, last.args[5], IndexedName(last.args[6], last.args[7] + i, FALSE, ""))
       /\ ports[last.args[5]][IndexedName(last.args[6], last.args[7] + i, FALSE, "")].net # NULL
  /\ ~fatal

(* ------------------------------- no-ops ------------------------------- *)
\* the call named a port that the cell does not have
AbsentPortCall ==
  /\ last.op \in {"replace_port", "rename_port", "copy_port", "disconnect_port"}
  /\ ~HasPort(last.pre, last.args[1], last.args[2])

\* the call was handed nullptr as net
AbsentNetCall ==
  /\ last.op \in {"connect_port", "rename_net"}
  /\ last.args[1] = NULL

\* C12: replace_port, rename_port, copy_port and disconnect_port called with
\* an old port name the cell does not have, and connect_port and rename_net
\* called with an absent net, complete and leave every port, net object, store
\* entry and destroyed-object set as it was.
C12_BenignNoOps ==
  (AbsentPortCall \/ AbsentNetCall) =>
    /\ ~fatal
    /\ ports = last.pre.ports
    /\ heap = last.pre.heap
    /\ nets = last.pre.nets
    /\ freed = last.pre.freed

\* copy_port from a port that does not exist onto a port of another cell that
\* does not exist either, in a graph with a connected port
C12_Witness ==
  /\ last.op = "copy_port"
  /\ ~HasPort(last.pre, last.args[1], last.args[2])
  /\ ~HasPort(last.pre, last.args[3], last.args[4])
  /\ last.args[1] # last.args[3]
  /\ \E c \in Cells : \E p \in DOMAIN ports[c] : ports[c][p].net # NULL

(* ------------------------------ rename_net ---------------------------- *)
\* the case of C13: the net handed to rename_net is a net of the design
RenameNetCase == last.op = "rename_net" /\ last.args[1] \in StoreNets(last.pre)

\* C13: rename_net of a net of the design is fatal when new_name is the
\* identifier of a net of the design (the net's own included); otherwise it
\* completes, the design holds the net under new_name and nothing under the
\* old identifier, every other identifier denotes what it did, the net's name
\* field is new_name, its driver and users are unchanged and every port keeps
\* its net pointer.
C13_RenameNet ==
  RenameNetCase =>
    LET g == last.pre
        net == last.args[1]
        new_name == last.args[2]
        was == g.heap[net].name
    IN IF new_name \in DOMAIN g.nets
         THEN fatal
         ELSE /\ ~fatal
              /\ DOMAIN nets = (DOMAIN g.nets \ {was}) \cup {new_name}
              /\ nets[new_name] = net
              /\ was \notin DOMAIN nets
              /\ \A n \in DOMAIN g.nets \ {was} : nets[n] = g.nets[n]
              /\ heap[net].name = new_name
              /\ heap[net].driver = g.heap[net].driver
              /\ heap[net].users = g.heap[net].users
              /\ \A a \in DOMAIN g.heap \ {net} : heap[a] = g.heap[a]
              /\ ports = g.ports

\* a net with a driver and users was given an identifier not in use
C13_Witness ==
  /\ RenameNetCase
  /\ last.args[2] \notin DOMAIN last.pre.nets
  /\ HasDriver(heap[last.args[1]])
  /\ Len(heap[last.args[1]].users) > 1
  /\ \E c \in Cells : \E p \in DOMAIN ports[c] : ports[c][p].net = last.args[1]
  /\ ~fatal

(* ------------------------- replace_port failures ---------------------- *)
\* old_port exists and new_port exists with another direction, or old_port is
\* neither an OUT nor an IN port
ReplaceMustFail(g, oc, on, nc, nn) ==
  /\ HasPort(g, oc, on)
  /\ \/ HasPort(g, nc, nn) /\ g.ports[nc][nn].type # g.ports[oc][on].type
     \/ g.ports[oc][on].type \notin {PORT_OUT, PORT_IN}

\* C14: replace_port is fatal exactly when old_port exists on old_cell and
\* either new_port exists on new_cell with a direction other than old_port's
\* or old_port's direction is neither OUT nor IN; in every other case it
\* completes.
C14_ReplaceFatalExactly ==
  last.op = "replace_port" =>
    (fatal <=> ReplaceMustFail(last.pre, last.args[1], last.args[2], last.args[3], last.args[4]))

(* ------------------------ disconnect_port twice ----------------------- *)
\* after disconnect_port(cell, port): the port has no net, and the net it had
\* names it neither as driver nor as user
Detached(g, c, p) ==
  HasPort(g, c, p) =>
    /\ HasPort(G, c, p)
    /\ ports[c][p].net = NULL
    /\ g.ports[c][p].net # NULL =>
         /\ ~Listed(heap[g.ports[c][p].net].users, c, p)
         /\ DriverOf(heap[g.ports[c][p].net]) # PortRef(c, p)

\* C15: disconnect_port(cell, port) completes in every reachable graph, leaves
\* the port without net and its former net without driver or user entry
\* naming it, and a second disconnect_port(cell, port) completes and changes
\* nothing.
C15_DisconnectIdempotent ==
  last.op = "disconnect_port" =>
    /\ ~fatal
    /\ Detached(last.pre, last.args[1], last.args[2])
    /\ \A ub \in {"stale", "crash"} :
         disconnect_port(G, ub, last.args[1], last.args[2]) = G

(* ----------------------- bus calls that end early --------------------- *)
\* the two ports index i of the bus call a addresses
IndexPorts(a, i) ==
  {<<a[1], IndexedName(a[2], a[3] + i, a[4], "")>>,
   <<a[5], IndexedName(a[6], a[7] + i, a[8], "")>>}

PortsUpTo(a, k) == UNION {IndexPorts(a, i) : i \in 0..k}

PortsAfter(a, k) == UNION {IndexPorts(a, i) : i \in (k + 1)..(a[9] - 1)}

\* the nets the ports of P are attached to in g
NetsOf(g, P) == {g.ports[r[1]][r[2]].net : r \in {q \in P : HasPort(g, q[1], q[2])}} \ {NULL}

\* every port and net that only indices above k address is as it was in g
LaterUntouched(g, a, k) ==
  /\ \A r \in PortsAfter(a, k) \ PortsUpTo(a, k) :
       /\ HasPort(G, r[1], r[2]) <=> HasPort(g, r[1], r[2])
       /\ HasPort(g, r[1], r[2]) => ports[r[1]][r[2]] = g.ports[r[1]][r[2]]
  /\ \A n \in NetsOf(g, PortsAfter(a, k)) \ NetsOf(g, PortsUpTo(a, k)) :
       heap[n] = g.heap[n]

\* C16: a replace_bus / copy_bus call that is fatal was fatal at some index k:
\* the single-port calls for the indices below k were made in ascending order
\* and completed, the call for index k was fatal, and every port and net that
\* only indices above k address is unmodified.
C16_PrefixComplete ==
  (BusCall /\ fatal) =>
    \E k \in 0..(last.args[9] - 1) : \E ub \in {"stale", "crash"} :
      LET h == SeqCalls(last.pre, ub, last.op, last.args, "", k)
      IN /\ ~h.fatal
         /\ G = SingleCall(h, ub, last.op, last.args, "", k)
         /\ LaterUntouched(last.pre, last.args, k)

\* a bus call that was fatal at index 1, after index 0 had moved a connected
\* port
C16_Witness ==
  /\ last.op = "replace_bus"
  /\ fatal
  /\ LET h == SeqCalls(last.pre, "stale", last.op, last.args, "", 1)
     IN /\ ~h.fatal
        /\ h.heap # last.pre.heap
        /\ G = SingleCall(h, "stale", last.op, last.args, "", 1)

(* ------------------------------ user order ---------------------------- *)
Primitive ==
  last.op \in {"connect_port", "disconnect_port", "replace_port", "rename_port", "copy_port", "rename_net"}

\* users without the entries naming ref, the others in their order
Without(users, ref) == SelectSeq(users, LAMBDA u : u # ref)

\* users with every entry naming from naming to, each in its place
Renamed(users, from, to) ==
  [i \in 1..Len(users) |-> IF users[i] = from THEN to ELSE users[i]]

\* the net pointer of port (c, p) in g, nullptr when there is no such port
NetOfPort(g, c, p) == IF HasPort(g, c, p) THEN g.ports[c][p].net ELSE NULL

TypeOfPort(g, c, p) == IF HasPort(g, c, p) THEN g.ports[c][p].type ELSE ""

\* the user list of net a after the completed call last, by the rule of C17
UsersByRule(g, op, x, a) ==
  LET was == g.heap[a].users
  IN IF op = "connect_port"
       THEN IF a = x[1] /\ TypeOfPort(g, x[2], x[3]) \in {PORT_IN, PORT_INOUT}
              THEN Append(was, PortRef(x[2], x[3])) ELSE was
     ELSE IF op = "disconnect_port"
       THEN IF a = NetOfPort(g, x[1], x[2])
              THEN Without(was, PortRef(x[1], x[2])) ELSE was
     ELSE IF op = "replace_port"
       THEN IF a = NetOfPort(g, x[1], x[2]) /\ TypeOfPort(g, x[1], x[2]) = PORT_IN
              THEN Renamed(was, PortRef(x[1], x[2]), PortRef(x[3], x[4])) ELSE was
     ELSE IF op = "rename_port"
       THEN IF a = NetOfPort(g, x[1], x[2])
              THEN Renamed(was, PortRef(x[1], x[2]), PortRef(x[1], x[3])) ELSE was
     ELSE IF op = "copy_port"
       THEN IF a = NetOfPort(g, x[1], x[2]) /\ TypeOfPort(g, x[1], x[2]) \in {PORT_IN, PORT_INOUT}
              THEN Append(was, PortRef(x[3], x[4])) ELSE was
     ELSE was

\* C17: a completed connect_port of an IN/INOUT port appends its entry at the
\* end of the net's users; a completed disconnect_port removes exactly the
\* entries naming its port; replace_port and rename_port rewrite entries in
\* place; copy_port appends; rename_net leaves the users; and the users of
\* every other net are untouched - so the entries that remain keep their
\* relative order.  A call that was fatal left every user list as it was.
C17_UserOrderPreserved ==
  Primitive =>
    /\ DOMAIN heap = DOMAIN last.pre.heap
    /\ \A a \in DOMAIN heap :
         heap[a].users = IF fatal THEN last.pre.heap[a].users
                         ELSE UsersByRule(last.pre, last.op, last.args, a)

\* the first of three users was disconnected, the other two stay in order
C17_Witness ==
  /\ last.op = "disconnect_port"
  /\ ~fatal
  /\ LET n == NetOfPort(last.pre, last.args[1], last.args[2])
     IN /\ n # NULL
        /\ Len(last.pre.heap[n].users) = 3
        /\ last.pre.heap[n].users[1] = PortRef(last.args[1], last.args[2])
        /\ heap[n].users = Tail(last.pre.heap[n].users)

(* ------------------------- rename_port's frame ------------------------ *)
\* C18: after rename_port(cell, old_name, new_name) with old_name present,
\* every other port of the cell that was there before the call (a port named
\* new_name included) is still there with its direction and net pointer, and
\* the cell has as many ports as before.
C18_RenameTouchesOnlyRenamed ==
  (last.op = "rename_port" /\ HasPort(last.pre, last.args[1], last.args[2])) =>
    LET g == last.pre
        c == last.args[1]
    IN /\ \A p \in DOMAIN g.ports[c] \ {last.args[2]} :
            /\ HasPort(G, c, p)
            /\ ports[c][p].type = g.ports[c][p].type
            /\ ports[c][p].net = g.ports[c][p].net
       /\ Cardinality(DOMAIN ports[c]) = Cardinality(DOMAIN g.ports[c])

(* -------------------------- duplicate entries ------------------------- *)
\* the (cell, port) pairs net names: its users and, if it has one, its driver
PairsOf(net) ==
  {net.users[i] : i \in 1..Len(net.users)} \cup (IF HasDriver(net) THEN {net.driver} ELSE {})

\* no pair twice in a user list, no pair in two nets of the design
NoDuplicates(g) ==
  /\ \A a \in StoreNets(g) :
       \A i, j \in 1..Len(g.heap[a].users) :
         g.heap[a].users[i] = g.heap[a].users[j] => i = j
  /\ \A a, b \in StoreNets(g) :
       a # b => PairsOf(g.heap[a]) \cap PairsOf(g.heap[b]) = {}

\* C19: a primitive call that completes on a graph without duplicate entries
\* leaves a graph without duplicate entries: no (cell, port) pair twice in a
\* net's users, none in the users or driver of two nets (so that, the initial
\* graph having none, no sequence of completed primitive calls produces one).
C19_NoDuplicateAttachments ==
  (Primitive /\ ~fatal /\ NoDuplicates(last.pre)) => NoDuplicates(G)

(* --------------------- copy_port onto an attached port ---------------- *)
\* C20: when (new_cell, new_name) exists and is connected, a copy_port call
\* that completes leaves its direction and its net pointer as they were, also
\* when the source port is unconnected.
C20_CopyKeepsAttachedPort ==
  (/\ last.op = "copy_port"
   /\ NetOfPort(last.pre, last.args[3], last.args[4]) # NULL
   /\ ~fatal) =>
    /\ HasPort(G, last.args[3], last.args[4])
    /\ ports[last.args[3]][last.args[4]].type = last.pre.ports[last.args[3]][last.args[4]].type
    /\ ports[last.args[3]][last.args[4]].net = last.pre.ports[last.args[3]][last.args[4]].net

====
